---- MODULE Spec2Model ----
(***************************************************************************)
(* parquet-dumper: the column accumulators of src/src/main.rs and of       *)
(* src/src/parquet.rs, save_parquet, the ingestion loop of main(), and the *)
(* metadata database of src/src/sqlite.rs.                                 *)
(*                                                                         *)
(* The repository holds two iterations of the same engine.  main.rs is a   *)
(* self-contained binary (its own BlockParquet ... CallParquet and the     *)
(* stdin loop); parquet.rs is the later library version of the same four   *)
(* accumulators (more columns, save_parquet returning a Result).  An       *)
(* accumulator value carries its Rust type, so that the trait methods      *)
(* context() and schema() dispatch on it as `&impl Parquet` does.          *)
(***************************************************************************)
EXTENDS Integers, Sequences, FiniteSets, TLC

VARIABLES
    capacity,           \* args.capacity (main.rs:25)
    status,             \* position of main(): "running", "panicked", or a statement of the flush
    inserted,           \* history: per kind, the records handed to insert, in order
    block_parquet,      \* the four accumulators (main.rs:492-495)
    extrinsic_parquet,
    event_parquet,
    call_parquet,
    disk,               \* the output tree: path -> file, as File::create leaves it
    writes,             \* history: the save_parquet calls, in order
    sqlite              \* the metadata database and the result of the last call on it

vars == <<capacity, status, inserted, block_parquet, extrinsic_parquet,
          event_parquet, call_parquet, disk, writes, sqlite>>

(***************************************************************************)
(* Bounds of the model.                                                    *)
(***************************************************************************)
MaxHeight == 3          \* block heights on the input: 0..MaxHeight, in any order
MaxCapacity == 2        \* args.capacity: 1..MaxCapacity
MaxBlocks == 3          \* input lines read in one run
MaxSub == 2             \* extrinsics + events + calls read in one run
MaxChainHeight == 5     \* heights of a chain: increasing, within 0..MaxChainHeight
MaxChainCapacity == 4   \* args.capacity when the input is a chain
MaxLibRows == 3         \* records a library client inserts
MaxStepBlocks == 2      \* input lines read when the loop runs statement by statement
MaxMetadataIds == 3     \* distinct ids handed to insert_metadata
MaxMetadataVersions == 2 \* distinct records of one id
MaxArgCapacity == 2     \* --capacity values around zero: -MaxArgCapacity..MaxArgCapacity
MaxArgHeight == 2       \* block heights around zero: -MaxArgHeight..MaxArgHeight
MaxArgBlocks == 2       \* input lines read when any i32 may be given

Heights == 0..MaxHeight
Capacities == 1..MaxCapacity
ChainHeights == 0..MaxChainHeight
ChainCapacities == 1..MaxChainCapacity
Kinds == {"block", "extrinsic", "event", "call"}

(***************************************************************************)
(* Rust values.                                                            *)
(***************************************************************************)
\* Option<T>: None is the empty sequence, Some(x) the one-element sequence.
None == <<>>
Some(x) == <<x>>
is_some(o) == Len(o) = 1
unwrap(o) == o[1]

\* ByteArray::from(s.into_bytes()): the bytes of the string s.
ByteArray_from(s) == [bytes |-> s]
\* serde_json::Value::to_string(): the JSON text of a value.
to_string(v) == [json_text |-> v]
\* DateTime::timestamp_millis(): the instant as i64 milliseconds.
timestamp_millis(t) == t.millis

\* The range of i32.
I32_MAX == 2147483647
I32_MIN == -I32_MAX - 1

\* i32 `%` where it is defined: the remainder takes the dividend's sign.  No
\* intermediate value leaves the i32 range (|a| is taken as (-(a + 1)) + 1).
Abs(x) == IF x < 0 THEN -x ELSE x
rem(a, b) ==
    IF b = I32_MIN THEN (IF a = I32_MIN THEN 0 ELSE a)
    ELSE IF a < 0 THEN -((((-(a + 1)) % Abs(b)) + 1) % Abs(b))
    ELSE a % Abs(b)

\* i32 `%` panics on a zero divisor and on i32::MIN % -1 (overflow).
rem_panics(a, b) == b = 0 \/ (a = I32_MIN /\ b = -1)

(***************************************************************************)
(* ColumnContext<T>                                                        *)
(***************************************************************************)
ColumnContext_new == [data |-> <<>>, def_levels |-> <<>>]

\* self.context.<col>.data.push(v)
push_data(col, v) == [col EXCEPT !.data = Append(@, v)]
\* self.context.<col>.def_levels.push(l)
push_def_level(col, l) == [col EXCEPT !.def_levels = Append(@, l)]

\* push_optional with a fault: an absent value leaves a placeholder in the
\* dense values.
push_optional_placeholder(col, o) ==
    IF is_some(o)
    THEN push_def_level(push_data(col, unwrap(o)), 1)
    ELSE push_def_level(push_data(col, None), 0)

\* if let Some(x) = field { data.push(x); def_levels.push(1) } else { def_levels.push(0) }
push_optional(col, o) ==
    IF is_some(o)
    THEN push_def_level(push_data(col, unwrap(o)), 1)
    ELSE push_def_level(col, 0)

\* Option::map over the two conversions used for optional fields.
opt_bytes(o) == IF is_some(o) THEN Some(ByteArray_from(unwrap(o))) ELSE None
opt_json_bytes(o) == IF is_some(o) THEN Some(ByteArray_from(to_string(unwrap(o)))) ELSE None

(***************************************************************************)
(* Schema entries and typed column references.                             *)
(***************************************************************************)
\* One line of a `message schema { ... }` text.
Col(rep, ty, name, logical) ==
    [repetition |-> rep, type |-> ty, name |-> name, logical |-> logical]
\* One ContextType::<ty>(&self.context.<col>) entry of context().
Ctx(ty, col) == [type |-> ty, data |-> col.data, def_levels |-> col.def_levels]

(***************************************************************************)
(* main.rs: the accumulators of the binary.                                *)
(***************************************************************************)
BlockParquet_new ==
    [type |-> "BlockParquet",
     context |-> [id |-> ColumnContext_new, height |-> ColumnContext_new,
                  hash |-> ColumnContext_new, parent_hash |-> ColumnContext_new,
                  timestamp |-> ColumnContext_new]]

ExtrinsicParquet_new ==
    [type |-> "ExtrinsicParquet",
     context |-> [id |-> ColumnContext_new, block_id |-> ColumnContext_new,
                  index_in_block |-> ColumnContext_new, name |-> ColumnContext_new,
                  signature |-> ColumnContext_new, success |-> ColumnContext_new,
                  hash |-> ColumnContext_new, call_id |-> ColumnContext_new]]

EventParquet_new ==
    [type |-> "EventParquet",
     context |-> [id |-> ColumnContext_new, block_id |-> ColumnContext_new,
                  index_in_block |-> ColumnContext_new, phase |-> ColumnContext_new,
                  extrinsic_id |-> ColumnContext_new, call_id |-> ColumnContext_new,
                  name |-> ColumnContext_new, args |-> ColumnContext_new]]

CallParquet_new ==
    [type |-> "CallParquet",
     context |-> [id |-> ColumnContext_new, index |-> ColumnContext_new,
                  extrinsic_id |-> ColumnContext_new, parent_id |-> ColumnContext_new,
                  success |-> ColumnContext_new, name |-> ColumnContext_new,
                  args |-> ColumnContext_new]]

BlockParquet_context(self) ==
    << Ctx("BYTE_ARRAY", self.context.id),
       Ctx("INT32", self.context.height),
       Ctx("BYTE_ARRAY", self.context.hash),
       Ctx("BYTE_ARRAY", self.context.parent_hash),
       Ctx("INT64", self.context.timestamp) >>

BlockParquet_schema ==
    << Col("REQUIRED", "BYTE_ARRAY", "id", "NONE"),
       Col("REQUIRED", "INT32", "height", "NONE"),
       Col("REQUIRED", "BYTE_ARRAY", "hash", "NONE"),
       Col("REQUIRED", "BYTE_ARRAY", "parent_hash", "NONE"),
       Col("REQUIRED", "INT64", "timestamp", "TIMESTAMP") >>

ExtrinsicParquet_context(self) ==
    << Ctx("BYTE_ARRAY", self.context.id),
       Ctx("BYTE_ARRAY", self.context.block_id),
       Ctx("INT32", self.context.index_in_block),
       Ctx("BYTE_ARRAY", self.context.name),
       Ctx("BYTE_ARRAY", self.context.signature),
       Ctx("BOOLEAN", self.context.success),
       Ctx("BYTE_ARRAY", self.context.hash),
       Ctx("BYTE_ARRAY", self.context.call_id) >>

ExtrinsicParquet_schema ==
    << Col("REQUIRED", "BYTE_ARRAY", "id", "NONE"),
       Col("REQUIRED", "BYTE_ARRAY", "block_id", "NONE"),
       Col("REQUIRED", "INT32", "index_in_block", "NONE"),
       Col("REQUIRED", "BYTE_ARRAY", "name", "NONE"),
       Col("OPTIONAL", "BYTE_ARRAY", "signature", "JSON"),
       Col("REQUIRED", "BOOLEAN", "success", "NONE"),
       Col("REQUIRED", "BYTE_ARRAY", "hash", "NONE"),
       Col("REQUIRED", "BYTE_ARRAY", "call_id", "NONE") >>

EventParquet_context(self) ==
    << Ctx("BYTE_ARRAY", self.context.id),
       Ctx("BYTE_ARRAY", self.context.block_id),
       Ctx("INT32", self.context.index_in_block),
       Ctx("BYTE_ARRAY", self.context.phase),
       Ctx("BYTE_ARRAY", self.context.extrinsic_id),
       Ctx("BYTE_ARRAY", self.context.call_id),
       Ctx("BYTE_ARRAY", self.context.name),
       Ctx("BYTE_ARRAY", self.context.args) >>

EventParquet_schema ==
    << Col("REQUIRED", "BYTE_ARRAY", "id", "NONE"),
       Col("REQUIRED", "BYTE_ARRAY", "block_id", "NONE"),
       Col("REQUIRED", "INT32", "index_in_block", "NONE"),
       Col("REQUIRED", "BYTE_ARRAY", "phase", "NONE"),
       Col("OPTIONAL", "BYTE_ARRAY", "extrinsic_id", "NONE"),
       Col("OPTIONAL", "BYTE_ARRAY", "call_id", "NONE"),
       Col("REQUIRED", "BYTE_ARRAY", "name", "NONE"),
       Col("OPTIONAL", "BYTE_ARRAY", "args", "JSON") >>

CallParquet_context(self) ==
    << Ctx("BYTE_ARRAY", self.context.id),
       Ctx("INT32", self.context.index),
       Ctx("BYTE_ARRAY", self.context.extrinsic_id),
       Ctx("BYTE_ARRAY", self.context.parent_id),
       Ctx("BOOLEAN", self.context.success),
       Ctx("BYTE_ARRAY", self.context.name),
       Ctx("BYTE_ARRAY", self.context.args) >>

CallParquet_schema ==
    << Col("REQUIRED", "BYTE_ARRAY", "id", "NONE"),
       Col("REQUIRED", "INT32", "index", "NONE"),
       Col("REQUIRED", "BYTE_ARRAY", "extrinsic_id", "NONE"),
       Col("OPTIONAL", "BYTE_ARRAY", "parent_id", "NONE"),
       Col("REQUIRED", "BOOLEAN", "success", "NONE"),
       Col("REQUIRED", "BYTE_ARRAY", "name", "NONE"),
       Col("OPTIONAL", "BYTE_ARRAY", "args", "JSON") >>

BlockParquet_insert(self, block) ==
    [self EXCEPT
        !.context.id = push_data(@, ByteArray_from(block.id)),
        !.context.height = push_data(@, block.height),
        !.context.hash = push_data(@, ByteArray_from(block.hash)),
        !.context.parent_hash = push_data(@, ByteArray_from(block.parent_hash)),
        !.context.timestamp = push_data(@, timestamp_millis(block.timestamp))]

ExtrinsicParquet_insert(self, extrinsic) ==
    [self EXCEPT
        !.context.id = push_data(@, ByteArray_from(extrinsic.id)),
        !.context.block_id = push_data(@, ByteArray_from(extrinsic.block_id)),
        !.context.index_in_block = push_data(@, extrinsic.index_in_block),
        !.context.name = push_data(@, ByteArray_from(extrinsic.name)),
        !.context.signature = push_optional(@, opt_json_bytes(extrinsic.signature)),
        !.context.success = push_data(@, extrinsic.success),
        !.context.hash = push_data(@, ByteArray_from(extrinsic.hash)),
        !.context.call_id = push_data(@, ByteArray_from(extrinsic.call_id))]

EventParquet_insert(self, event) ==
    [self EXCEPT
        !.context.id = push_data(@, ByteArray_from(event.id)),
        !.context.block_id = push_data(@, ByteArray_from(event.block_id)),
        !.context.index_in_block = push_data(@, event.index_in_block),
        !.context.phase = push_data(@, ByteArray_from(event.phase)),
        !.context.extrinsic_id = push_optional(@, opt_bytes(event.extrinsic_id)),
        !.context.call_id = push_optional(@, opt_bytes(event.call_id)),
        !.context.name = push_data(@, ByteArray_from(event.name)),
        !.context.args = push_optional(@, opt_json_bytes(event.args))]

CallParquet_insert(self, call) ==
    [self EXCEPT
        !.context.id = push_data(@, ByteArray_from(call.id)),
        !.context.index = push_data(@, call.index),
        !.context.extrinsic_id = push_data(@, ByteArray_from(call.extrinsic_id)),
        !.context.parent_id = push_optional(@, opt_bytes(call.parent_id)),
        !.context.success = push_data(@, call.success),
        !.context.name = push_data(@, ByteArray_from(call.name)),
        !.context.args = push_optional(@, opt_json_bytes(call.args))]

(***************************************************************************)
(* parquet.rs: the accumulators of the library.                            *)
(***************************************************************************)
parquet_BlockParquet_new ==
    [type |-> "parquet::BlockParquet",
     context |-> [id |-> ColumnContext_new, height |-> ColumnContext_new,
                  hash |-> ColumnContext_new, parent_hash |-> ColumnContext_new,
                  timestamp |-> ColumnContext_new, spec_id |-> ColumnContext_new,
                  validator |-> ColumnContext_new]]

parquet_ExtrinsicParquet_new ==
    [type |-> "parquet::ExtrinsicParquet",
     context |-> [id |-> ColumnContext_new, block_id |-> ColumnContext_new,
                  index_in_block |-> ColumnContext_new, signature |-> ColumnContext_new,
                  success |-> ColumnContext_new, hash |-> ColumnContext_new,
                  call_id |-> ColumnContext_new, pos |-> ColumnContext_new]]

parquet_EventParquet_new ==
    [type |-> "parquet::EventParquet",
     context |-> [id |-> ColumnContext_new, block_id |-> ColumnContext_new,
                  index_in_block |-> ColumnContext_new, phase |-> ColumnContext_new,
                  extrinsic_id |-> ColumnContext_new, call_id |-> ColumnContext_new,
                  name |-> ColumnContext_new, args |-> ColumnContext_new,
                  pos |-> ColumnContext_new]]

parquet_CallParquet_new ==
    [type |-> "parquet::CallParquet",
     context |-> [id |-> ColumnContext_new, extrinsic_id |-> ColumnContext_new,
                  block_id |-> ColumnContext_new, parent_id |-> ColumnContext_new,
                  success |-> ColumnContext_new, name |-> ColumnContext_new,
                  args |-> ColumnContext_new, pos |-> ColumnContext_new]]

parquet_BlockParquet_context(self) ==
    << Ctx("BYTE_ARRAY", self.context.id),
       Ctx("INT32", self.context.height),
       Ctx("BYTE_ARRAY", self.context.hash),
       Ctx("BYTE_ARRAY", self.context.parent_hash),
       Ctx("INT64", self.context.timestamp),
       Ctx("BYTE_ARRAY", self.context.spec_id),
       Ctx("BYTE_ARRAY", self.context.validator) >>

parquet_BlockParquet_schema ==
    << Col("REQUIRED", "BYTE_ARRAY", "id", "NONE"),
       Col("REQUIRED", "INT32", "height", "NONE"),
       Col("REQUIRED", "BYTE_ARRAY", "hash", "NONE"),
       Col("REQUIRED", "BYTE_ARRAY", "parent_hash", "NONE"),
       Col("REQUIRED", "INT64", "timestamp", "TIMESTAMP"),
       Col("REQUIRED", "BYTE_ARRAY", "spec_id", "NONE"),
       Col("OPTIONAL", "BYTE_ARRAY", "validator", "NONE") >>

parquet_ExtrinsicParquet_context(self) ==
    << Ctx("BYTE_ARRAY", self.context.id),
       Ctx("BYTE_ARRAY", self.context.block_id),
       Ctx("INT32", self.context.index_in_block),
       Ctx("BYTE_ARRAY", self.context.signature),
       Ctx("BOOLEAN", self.context.success),
       Ctx("BYTE_ARRAY", self.context.hash),
       Ctx("BYTE_ARRAY", self.context.call_id),
       Ctx("INT32", self.context.pos) >>

parquet_ExtrinsicParquet_schema ==
    << Col("REQUIRED", "BYTE_ARRAY", "id", "NONE"),
       Col("REQUIRED", "BYTE_ARRAY", "block_id", "NONE"),
       Col("REQUIRED", "INT32", "index_in_block", "NONE"),
       Col("OPTIONAL", "BYTE_ARRAY", "signature", "JSON"),
       Col("REQUIRED", "BOOLEAN", "success", "NONE"),
       Col("REQUIRED", "BYTE_ARRAY", "hash", "NONE"),
       Col("REQUIRED", "BYTE_ARRAY", "call_id", "NONE"),
       Col("REQUIRED", "INT32", "pos", "NONE") >>

parquet_EventParquet_context(self) ==
    << Ctx("BYTE_ARRAY", self.context.id),
       Ctx("BYTE_ARRAY", self.context.block_id),
       Ctx("INT32", self.context.index_in_block),
       Ctx("BYTE_ARRAY", self.context.phase),
       Ctx("BYTE_ARRAY", self.context.extrinsic_id),
       Ctx("BYTE_ARRAY", self.context.call_id),
       Ctx("BYTE_ARRAY", self.context.name),
       Ctx("BYTE_ARRAY", self.context.args),
       Ctx("INT32", self.context.pos) >>

parquet_EventParquet_schema ==
    << Col("REQUIRED", "BYTE_ARRAY", "id", "NONE"),
       Col("REQUIRED", "BYTE_ARRAY", "block_id", "NONE"),
       Col("REQUIRED", "INT32", "index_in_block", "NONE"),
       Col("REQUIRED", "BYTE_ARRAY", "phase", "NONE"),
       Col("OPTIONAL", "BYTE_ARRAY", "extrinsic_id", "NONE"),
       Col("OPTIONAL", "BYTE_ARRAY", "call_id", "NONE"),
       Col("REQUIRED", "BYTE_ARRAY", "name", "NONE"),
       Col("OPTIONAL", "BYTE_ARRAY", "args", "JSON"),
       Col("REQUIRED", "INT32", "pos", "NONE") >>

\* context() with a fault: the entries of block_id and success change places.
parquet_CallParquet_context_swapped(self) ==
    << Ctx("BYTE_ARRAY", self.context.id),
       Ctx("BYTE_ARRAY", self.context.extrinsic_id),
       Ctx("BYTE_ARRAY", self.context.parent_id),
       Ctx("BOOLEAN", self.context.success),
       Ctx("BYTE_ARRAY", self.context.block_id),
       Ctx("BYTE_ARRAY", self.context.name),
       Ctx("BYTE_ARRAY", self.context.args),
       Ctx("INT32", self.context.pos) >>

parquet_CallParquet_context(self) ==
    << Ctx("BYTE_ARRAY", self.context.id),
       Ctx("BYTE_ARRAY", self.context.extrinsic_id),
       Ctx("BYTE_ARRAY", self.context.parent_id),
       Ctx("BYTE_ARRAY", self.context.block_id),
       Ctx("BOOLEAN", self.context.success),
       Ctx("BYTE_ARRAY", self.context.name),
       Ctx("BYTE_ARRAY", self.context.args),
       Ctx("INT32", self.context.pos) >>

parquet_CallParquet_schema ==
    << Col("REQUIRED", "BYTE_ARRAY", "id", "NONE"),
       Col("REQUIRED", "BYTE_ARRAY", "extrinsic_id", "NONE"),
       Col("OPTIONAL", "BYTE_ARRAY", "parent_id", "NONE"),
       Col("REQUIRED", "BYTE_ARRAY", "block_id", "NONE"),
       Col("REQUIRED", "BOOLEAN", "success", "NONE"),
       Col("REQUIRED", "BYTE_ARRAY", "name", "NONE"),
       Col("OPTIONAL", "BYTE_ARRAY", "args", "JSON"),
       Col("REQUIRED", "INT32", "pos", "NONE") >>

parquet_BlockParquet_insert(self, block) ==
    [self EXCEPT
        !.context.id = push_data(@, ByteArray_from(block.id)),
        !.context.height = push_data(@, block.height),
        !.context.hash = push_data(@, ByteArray_from(block.hash)),
        !.context.parent_hash = push_data(@, ByteArray_from(block.parent_hash)),
        !.context.timestamp = push_data(@, timestamp_millis(block.timestamp)),
        !.context.spec_id = push_data(@, ByteArray_from(block.spec_id)),
        !.context.validator = push_optional(@, opt_bytes(block.validator))]

\* parquet_ExtrinsicParquet_insert with a fault: no definition level is
\* pushed for an absent signature.
parquet_ExtrinsicParquet_insert_no_else(self, extrinsic) ==
    [self EXCEPT
        !.context.id = push_data(@, ByteArray_from(extrinsic.id)),
        !.context.block_id = push_data(@, ByteArray_from(extrinsic.block_id)),
        !.context.index_in_block = push_data(@, extrinsic.index_in_block),
        !.context.signature =
            IF is_some(extrinsic.signature)
            THEN push_optional(@, opt_json_bytes(extrinsic.signature))
            ELSE @,
        !.context.success = push_data(@, extrinsic.success),
        !.context.hash = push_data(@, ByteArray_from(extrinsic.hash)),
        !.context.call_id = push_data(@, ByteArray_from(extrinsic.call_id)),
        !.context.pos = push_data(@, extrinsic.pos)]

parquet_ExtrinsicParquet_insert(self, extrinsic) ==
    [self EXCEPT
        !.context.id = push_data(@, ByteArray_from(extrinsic.id)),
        !.context.block_id = push_data(@, ByteArray_from(extrinsic.block_id)),
        !.context.index_in_block = push_data(@, extrinsic.index_in_block),
        !.context.signature = push_optional(@, opt_json_bytes(extrinsic.signature)),
        !.context.success = push_data(@, extrinsic.success),
        !.context.hash = push_data(@, ByteArray_from(extrinsic.hash)),
        !.context.call_id = push_data(@, ByteArray_from(extrinsic.call_id)),
        !.context.pos = push_data(@, extrinsic.pos)]

\* parquet_EventParquet_insert with a fault: the call_id value goes to the
\* extrinsic_id column and the extrinsic_id value to the call_id column.
parquet_EventParquet_insert_swapped(self, event) ==
    [self EXCEPT
        !.context.id = push_data(@, ByteArray_from(event.id)),
        !.context.block_id = push_data(@, ByteArray_from(event.block_id)),
        !.context.index_in_block = push_data(@, event.index_in_block),
        !.context.phase = push_data(@, ByteArray_from(event.phase)),
        !.context.extrinsic_id = push_optional(@, opt_bytes(event.call_id)),
        !.context.call_id = push_optional(@, opt_bytes(event.extrinsic_id)),
        !.context.name = push_data(@, ByteArray_from(event.name)),
        !.context.args = push_optional(@, opt_json_bytes(event.args)),
        !.context.pos = push_data(@, event.pos)]

parquet_EventParquet_insert(self, event) ==
    [self EXCEPT
        !.context.id = push_data(@, ByteArray_from(event.id)),
        !.context.block_id = push_data(@, ByteArray_from(event.block_id)),
        !.context.index_in_block = push_data(@, event.index_in_block),
        !.context.phase = push_data(@, ByteArray_from(event.phase)),
        !.context.extrinsic_id = push_optional(@, opt_bytes(event.extrinsic_id)),
        !.context.call_id = push_optional(@, opt_bytes(event.call_id)),
        !.context.name = push_data(@, ByteArray_from(event.name)),
        !.context.args = push_optional(@, opt_json_bytes(event.args)),
        !.context.pos = push_data(@, event.pos)]

parquet_CallParquet_insert(self, call) ==
    [self EXCEPT
        !.context.id = push_data(@, ByteArray_from(call.id)),
        !.context.extrinsic_id = push_data(@, ByteArray_from(call.extrinsic_id)),
        !.context.parent_id = push_optional(@, opt_bytes(call.parent_id)),
        !.context.block_id = push_data(@, ByteArray_from(call.block_id)),
        !.context.success = push_data(@, call.success),
        !.context.name = push_data(@, ByteArray_from(call.name)),
        !.context.args = push_optional(@, opt_json_bytes(call.args)),
        !.context.pos = push_data(@, call.pos)]

(***************************************************************************)
(* trait Parquet: context() and schema(), dispatched on the value's type.  *)
(***************************************************************************)
context(parquet) ==
    CASE parquet.type = "BlockParquet" -> BlockParquet_context(parquet)
      [] parquet.type = "ExtrinsicParquet" -> ExtrinsicParquet_context(parquet)
      [] parquet.type = "EventParquet" -> EventParquet_context(parquet)
      [] parquet.type = "CallParquet" -> CallParquet_context(parquet)
      [] parquet.type = "parquet::BlockParquet" -> parquet_BlockParquet_context(parquet)
      [] parquet.type = "parquet::ExtrinsicParquet" -> parquet_ExtrinsicParquet_context(parquet)
      [] parquet.type = "parquet::EventParquet" -> parquet_EventParquet_context(parquet)
      [] parquet.type = "parquet::CallParquet" -> parquet_CallParquet_context(parquet)

schema(parquet) ==
    CASE parquet.type = "BlockParquet" -> BlockParquet_schema
      [] parquet.type = "ExtrinsicParquet" -> ExtrinsicParquet_schema
      [] parquet.type = "EventParquet" -> EventParquet_schema
      [] parquet.type = "CallParquet" -> CallParquet_schema
      [] parquet.type = "parquet::BlockParquet" -> parquet_BlockParquet_schema
      [] parquet.type = "parquet::ExtrinsicParquet" -> parquet_ExtrinsicParquet_schema
      [] parquet.type = "parquet::EventParquet" -> parquet_EventParquet_schema
      [] parquet.type = "parquet::CallParquet" -> parquet_CallParquet_schema

(***************************************************************************)
(* save_parquet and the output tree.                                       *)
(***************************************************************************)
\* typed_writer.write_batch(&context.data, Some(&context.def_levels), None):
\* the column chunk holds the dense values and the definition levels given.
write_batch(column_context) ==
    [data |-> column_context.data, def_levels |-> column_context.def_levels]

\* The file save_parquet leaves at `path`: the schema and ONE row group,
\* whose col_index-th chunk is written from parquet.context()[col_index].
save_parquet(parquet) ==
    LET parquet_context == context(parquet) IN
    [schema |-> schema(parquet),
     row_groups |-> << [col_index \in 1..Len(schema(parquet)) |->
                           write_batch(parquet_context[col_index])] >>]

\* One turn of the `while let Some(col_writer)` loop of save_parquet: the
\* column writer is the one of the schema column's physical type, and the
\* match on parquet_context[col_index] writes the batch or panics.
dispatch(col, parquet_context, col_index) ==
    IF col_index > Len(parquet_context)
    THEN "panic: index out of bounds"
    ELSE LET column_context == parquet_context[col_index] IN
         CASE col.type = "BYTE_ARRAY" ->
                 IF column_context.type = "BYTE_ARRAY" THEN "written"
                 ELSE "panic: Only ContextType::ByteArray is available"
           [] col.type = "INT32" ->
                 IF column_context.type = "INT32" THEN "written"
                 ELSE "panic: Only ContextType::Int32 is available"
           [] col.type = "INT64" ->
                 IF column_context.type = "INT64" THEN "written"
                 ELSE "panic: Only ContextType::Int64 is available"
           [] col.type = "BOOLEAN" ->
                 IF column_context.type = "BOOLEAN" THEN "written"
                 ELSE "panic: Only ContextType::Bool is available"
           [] OTHER -> "panic: not implemented"

\* How the column loop of save_parquet ends: "Ok", or the first panic.
RECURSIVE column_loop(_, _, _)
column_loop(sch, parquet_context, col_index) ==
    IF col_index > Len(sch) THEN "Ok"
    ELSE IF dispatch(sch[col_index], parquet_context, col_index) = "written"
         THEN column_loop(sch, parquet_context, col_index + 1)
         ELSE dispatch(sch[col_index], parquet_context, col_index)

\* join with a fault: the call file is put in the event directory.
join_call_in_event(dir, block_height) ==
    [dir |-> IF dir = "call" THEN "event" ELSE dir, stem |-> block_height]

\* <dir>.join(format!("{}.parquet", block_height))
join(dir, block_height) == [dir |-> dir, stem |-> block_height]

\* File::create(path) followed by the writes and close(): the path now holds
\* exactly `file`, whatever it held before.
fs_write(fs, path, file) ==
    [p \in (DOMAIN fs) \cup {path} |-> IF p = path THEN file ELSE fs[p]]

NoFiles == [p \in {} |-> 0]

\* Rows of a column chunk as the file format counts them: one per definition
\* level for an OPTIONAL column, one per value for a REQUIRED one.
chunk_rows(col, chunk) ==
    IF col.repetition = "OPTIONAL" THEN Len(chunk.def_levels) ELSE Len(chunk.data)

\* Rows of a file: the rows of its row groups (each counted on its first column).
RECURSIVE row_groups_rows(_, _)
row_groups_rows(sch, rgs) ==
    IF rgs = <<>> THEN 0
    ELSE chunk_rows(sch[1], Head(rgs)[1]) + row_groups_rows(sch, Tail(rgs))

file_rows(file) == row_groups_rows(file.schema, file.row_groups)

\* Rows buffered in an accumulator (every insert pushes one id).
len(parquet) == Len(parquet.context.id.data)

(***************************************************************************)
(* entities.rs: the decoded records.  Record number n of a kind carries    *)
(* field values that name the field and n, so that every value can be      *)
(* traced to its record.                                                   *)
(***************************************************************************)
Block(n, height, has_validator) ==
    [id |-> <<"block.id", n>>, height |-> height, hash |-> <<"block.hash", n>>,
     parent_hash |-> <<"block.parent_hash", n>>, timestamp |-> [millis |-> 1000 * n],
     spec_id |-> <<"block.spec_id", n>>,
     validator |-> IF has_validator THEN Some(<<"block.validator", n>>) ELSE None]

Extrinsic(n, f) ==
    [id |-> <<"extrinsic.id", n>>, block_id |-> <<"extrinsic.block_id", n>>,
     index_in_block |-> n, name |-> <<"extrinsic.name", n>>,
     signature |-> IF f[1] THEN Some(<<"extrinsic.signature", n>>) ELSE None,
     success |-> (n % 2 = 1), hash |-> <<"extrinsic.hash", n>>,
     call_id |-> <<"extrinsic.call_id", n>>, pos |-> 10 + n]

Event(n, f) ==
    [id |-> <<"event.id", n>>, block_id |-> <<"event.block_id", n>>,
     index_in_block |-> n, phase |-> <<"event.phase", n>>,
     extrinsic_id |-> IF f[1] THEN Some(<<"event.extrinsic_id", n>>) ELSE None,
     call_id |-> IF f[2] THEN Some(<<"event.call_id", n>>) ELSE None,
     name |-> <<"event.name", n>>,
     args |-> IF f[3] THEN Some(<<"event.args", n>>) ELSE None,
     pos |-> 10 + n]

Call(n, f) ==
    [id |-> <<"call.id", n>>, index |-> n,
     parent_id |-> IF f[1] THEN Some(<<"call.parent_id", n>>) ELSE None,
     block_id |-> <<"call.block_id", n>>, extrinsic_id |-> <<"call.extrinsic_id", n>>,
     success |-> (n % 2 = 1), name |-> <<"call.name", n>>,
     args |-> IF f[2] THEN Some(<<"call.args", n>>) ELSE None,
     pos |-> 10 + n]

\* The input lines: a header of some height and, per sub-record, which of
\* its optional fields are present.
Shapes(k, n) == UNION {[1..m -> [1..k -> BOOLEAN]] : m \in 0..n}

BlockData(height, xs, es, cs) ==
    [header |-> Block(Len(inserted.block) + 1, height, FALSE),
     extrinsics |-> [i \in 1..Len(xs) |-> Extrinsic(Len(inserted.extrinsic) + i, xs[i])],
     events |-> [i \in 1..Len(es) |-> Event(Len(inserted.event) + i, es[i])],
     calls |-> [i \in 1..Len(cs) |-> Call(Len(inserted.call) + i, cs[i])]]

(***************************************************************************)
(* main(): the ingestion loop.                                             *)
(***************************************************************************)
\* The extrinsic loop with a fault: the last extrinsic of the block is skipped.
RECURSIVE insert_extrinsics_but_last(_, _)
insert_extrinsics_but_last(parquet, extrinsics) ==
    IF Len(extrinsics) <= 1 THEN parquet
    ELSE insert_extrinsics_but_last(ExtrinsicParquet_insert(parquet, Head(extrinsics)),
                                    Tail(extrinsics))

\* for extrinsic in block_data.extrinsics { extrinsic_parquet.insert(extrinsic); }
RECURSIVE insert_extrinsics(_, _)
insert_extrinsics(parquet, extrinsics) ==
    IF extrinsics = <<>> THEN parquet
    ELSE insert_extrinsics(ExtrinsicParquet_insert(parquet, Head(extrinsics)),
                           Tail(extrinsics))

\* for event in block_data.events { event_parquet.insert(event); }
RECURSIVE insert_events(_, _)
insert_events(parquet, events) ==
    IF events = <<>> THEN parquet
    ELSE insert_events(EventParquet_insert(parquet, Head(events)), Tail(events))

\* for call in block_data.calls { call_parquet.insert(call); }
RECURSIVE insert_calls(_, _)
insert_calls(parquet, calls) ==
    IF calls = <<>> THEN parquet
    ELSE insert_calls(CallParquet_insert(parquet, Head(calls)), Tail(calls))

\* Variants of flush_due with a fault: the test without `block_height != 0`,
\* and the test against twice the capacity.
flush_due_zero_too(block_height, cap) ==
    rem(block_height, cap) = 0

flush_due_double(block_height, cap) ==
    rem(block_height, 2 * cap) = 0 /\ block_height # 0

\* block_height % args.capacity == 0 && block_height != 0
flush_due(block_height, cap) ==
    rem(block_height, cap) = 0 /\ block_height # 0

\* One iteration of the loop on a line that decodes to block_data.  The
\* records are inserted first; then the flush test is evaluated, and its `%`
\* may panic.
loop_body(block_data) ==
    LET block_height == block_data.header.height
        bp == BlockParquet_insert(block_parquet, block_data.header)
        xp == insert_extrinsics(extrinsic_parquet, block_data.extrinsics)
        ep == insert_events(event_parquet, block_data.events)
        cp == insert_calls(call_parquet, block_data.calls)
        block_path == join("block", block_height)
        extrinsic_path == join("extrinsic", block_height)
        event_path == join("event", block_height)
        call_path == join("call", block_height)
    IN
    /\ inserted' = [block |-> Append(inserted.block, block_data.header),
                    extrinsic |-> inserted.extrinsic \o block_data.extrinsics,
                    event |-> inserted.event \o block_data.events,
                    call |-> inserted.call \o block_data.calls]
    /\ IF ~ rem_panics(block_height, capacity) /\ flush_due(block_height, capacity)
       THEN /\ disk' = fs_write(fs_write(fs_write(fs_write(disk,
                            block_path, save_parquet(bp)),
                            extrinsic_path, save_parquet(xp)),
                            event_path, save_parquet(ep)),
                            call_path, save_parquet(cp))
            /\ writes' = writes \o << [path |-> block_path, file |-> save_parquet(bp)],
                                      [path |-> extrinsic_path, file |-> save_parquet(xp)],
                                      [path |-> event_path, file |-> save_parquet(ep)],
                                      [path |-> call_path, file |-> save_parquet(cp)] >>
            /\ block_parquet' = BlockParquet_new
            /\ extrinsic_parquet' = ExtrinsicParquet_new
            /\ event_parquet' = EventParquet_new
            /\ call_parquet' = CallParquet_new
       ELSE /\ block_parquet' = bp
            /\ extrinsic_parquet' = xp
            /\ event_parquet' = ep
            /\ call_parquet' = cp
            /\ UNCHANGED <<disk, writes>>
    /\ status' = IF rem_panics(block_height, capacity) THEN "panicked" ELSE status
    /\ UNCHANGED capacity
    /\ UNCHANGED sqlite

IsBinary == block_parquet.type = "BlockParquet"
IsLibrary == block_parquet.type = "parquet::BlockParquet"

SubRecords == Len(inserted.extrinsic) + Len(inserted.event) + Len(inserted.call)

\* stdin().read_line, serde_json::from_str succeeds: the loop body runs.
Ingest ==
    /\ IsBinary
    /\ status = "running"
    /\ Len(inserted.block) < MaxBlocks
    /\ \E height \in Heights :
       \E xs \in Shapes(1, MaxSub - SubRecords) :
       \E es \in Shapes(3, MaxSub - SubRecords - Len(xs)) :
       \E cs \in Shapes(2, MaxSub - SubRecords - Len(xs) - Len(es)) :
          loop_body(BlockData(height, xs, es, cs))

\* The same step when the input is a chain.
IngestChain ==
    /\ IsBinary
    /\ status = "running"
    /\ \E height \in ChainHeights :
       \E xs \in Shapes(1, 1) :
          /\ inserted.block # <<>> => height > inserted.block[Len(inserted.block)].height
          /\ loop_body(BlockData(height, xs, <<>>, <<>>))

\* DecodePanic with a fault: the header of the line is inserted before the
\* rest of the line fails to decode.
DecodePanic_after_header ==
    /\ IsBinary
    /\ status = "running"
    /\ status' = "panicked"
    /\ block_parquet' = BlockParquet_insert(block_parquet,
                            Block(Len(inserted.block) + 1, 0, FALSE))
    /\ UNCHANGED <<capacity, inserted, extrinsic_parquet, event_parquet,
                   call_parquet, disk, writes>>
    /\ UNCHANGED sqlite

\* DecodePanic with a fault: the end of the input drains the accumulators
\* into a last file of each kind before the loop stops.
DecodePanic_drain ==
    /\ IsBinary
    /\ status = "running"
    /\ status' = "panicked"
    /\ disk' = fs_write(fs_write(fs_write(fs_write(disk,
                    join("block", "last"), save_parquet(block_parquet)),
                    join("extrinsic", "last"), save_parquet(extrinsic_parquet)),
                    join("event", "last"), save_parquet(event_parquet)),
                    join("call", "last"), save_parquet(call_parquet))
    /\ writes' = writes \o
          << [path |-> join("block", "last"), file |-> save_parquet(block_parquet)],
             [path |-> join("extrinsic", "last"), file |-> save_parquet(extrinsic_parquet)],
             [path |-> join("event", "last"), file |-> save_parquet(event_parquet)],
             [path |-> join("call", "last"), file |-> save_parquet(call_parquet)] >>
    /\ UNCHANGED <<capacity, inserted, block_parquet, extrinsic_parquet,
                   event_parquet, call_parquet>>
    /\ UNCHANGED sqlite

\* The same step for any i32 height.
ArgCapacities == (-MaxArgCapacity..MaxArgCapacity) \cup {I32_MIN, I32_MAX}
ArgHeights == (-MaxArgHeight..MaxArgHeight) \cup {I32_MIN, I32_MAX}

IngestArgs ==
    /\ IsBinary
    /\ status = "running"
    /\ Len(inserted.block) < MaxArgBlocks
    /\ \E height \in ArgHeights :
       \E xs \in Shapes(1, 1) :
          loop_body(BlockData(height, xs, <<>>, <<>>))

\* read_line returns an empty line at end of input, or the line is not a
\* BlockData: serde_json::from_str(..).unwrap() panics before any insert.
DecodePanic ==
    /\ IsBinary
    /\ status = "running"
    /\ status' = "panicked"
    /\ UNCHANGED <<capacity, inserted, block_parquet, extrinsic_parquet,
                   event_parquet, call_parquet, disk, writes>>
    /\ UNCHANGED sqlite

(***************************************************************************)
(* A client of the library: inserts into the parquet.rs accumulators and   *)
(* saves one of them, replacing it by a new one as main() does.            *)
(***************************************************************************)
LibRows == Len(inserted.block) + SubRecords

LibInsertBlock ==
    /\ IsLibrary
    /\ LibRows < MaxLibRows
    /\ \E has_validator \in BOOLEAN :
         LET block == Block(Len(inserted.block) + 1, Len(inserted.block) + 1,
                            has_validator) IN
         /\ block_parquet' = parquet_BlockParquet_insert(block_parquet, block)
         /\ inserted' = [inserted EXCEPT !.block = Append(@, block)]
    /\ UNCHANGED <<capacity, status, extrinsic_parquet, event_parquet, call_parquet,
                   disk, writes>>
    /\ UNCHANGED sqlite

LibInsertExtrinsic ==
    /\ IsLibrary
    /\ LibRows < MaxLibRows
    /\ \E f \in [1..1 -> BOOLEAN] :
         LET extrinsic == Extrinsic(Len(inserted.extrinsic) + 1, f) IN
         /\ extrinsic_parquet' = parquet_ExtrinsicParquet_insert(extrinsic_parquet, extrinsic)
         /\ inserted' = [inserted EXCEPT !.extrinsic = Append(@, extrinsic)]
    /\ UNCHANGED <<capacity, status, block_parquet, event_parquet, call_parquet,
                   disk, writes>>
    /\ UNCHANGED sqlite

LibInsertEvent ==
    /\ IsLibrary
    /\ LibRows < MaxLibRows
    /\ \E f \in [1..3 -> BOOLEAN] :
         LET event == Event(Len(inserted.event) + 1, f) IN
         /\ event_parquet' = parquet_EventParquet_insert(event_parquet, event)
         /\ inserted' = [inserted EXCEPT !.event = Append(@, event)]
    /\ UNCHANGED <<capacity, status, block_parquet, extrinsic_parquet, call_parquet,
                   disk, writes>>
    /\ UNCHANGED sqlite

LibInsertCall ==
    /\ IsLibrary
    /\ LibRows < MaxLibRows
    /\ \E f \in [1..2 -> BOOLEAN] :
         LET call == Call(Len(inserted.call) + 1, f) IN
         /\ call_parquet' = parquet_CallParquet_insert(call_parquet, call)
         /\ inserted' = [inserted EXCEPT !.call = Append(@, call)]
    /\ UNCHANGED <<capacity, status, block_parquet, extrinsic_parquet, event_parquet,
                   disk, writes>>
    /\ UNCHANGED sqlite

\* save_parquet(&parquet, path) returning Ok(()), then parquet = <Kind>Parquet::new().
LibSave ==
    /\ IsLibrary
    /\ \E kind \in Kinds :
         LET parquet == CASE kind = "block" -> block_parquet
                          [] kind = "extrinsic" -> extrinsic_parquet
                          [] kind = "event" -> event_parquet
                          [] kind = "call" -> call_parquet
             path == join(kind, Len(writes) + 1)
         IN
         /\ len(parquet) > 0
         /\ disk' = fs_write(disk, path, save_parquet(parquet))
         /\ writes' = Append(writes, [path |-> path, file |-> save_parquet(parquet)])
         /\ block_parquet' = IF kind = "block" THEN parquet_BlockParquet_new
                             ELSE block_parquet
         /\ extrinsic_parquet' = IF kind = "extrinsic" THEN parquet_ExtrinsicParquet_new
                                 ELSE extrinsic_parquet
         /\ event_parquet' = IF kind = "event" THEN parquet_EventParquet_new
                             ELSE event_parquet
         /\ call_parquet' = IF kind = "call" THEN parquet_CallParquet_new
                            ELSE call_parquet
    /\ UNCHANGED <<capacity, status, inserted>>
    /\ UNCHANGED sqlite

(***************************************************************************)
(* sqlite.rs and error.rs: the metadata database.  The table is None until *)
(* CREATE TABLE has run, then Some(rows), rows in insertion order.         *)
(***************************************************************************)
\* The record handed to insert_metadata: the six fields it binds to ?1..?6.
Metadata(id, n) ==
    [id |-> <<"metadata.id", id>>, spec_name |-> <<"metadata.spec_name", n>>,
     spec_version |-> n, block_height |-> n,
     block_hash |-> <<"metadata.block_hash", n>>, hex |-> <<"metadata.hex", n>>]

\* SQLite::new on a path that holds no database yet.
SQLite_new == [table |-> None, result |-> None]

\* impl From<rusqlite::Error> for Error: Error::Internal(err.to_string()).
Error_from(err) == [Internal |-> to_string(err)]
Ok == [Ok |-> <<>>]
Err(e) == [Err |-> e]

\* init_schema: CREATE TABLE metadata (id varchar primary key, ...).
init_schema(db) ==
    IF is_some(db.table)
    THEN [table |-> db.table, ret |-> Err(Error_from("table metadata already exists"))]
    ELSE [table |-> Some(<<>>), ret |-> Ok]

\* insert_metadata with a fault: INSERT OR REPLACE instead of INSERT.
insert_metadata_or_replace(db, metadata) ==
    IF ~ is_some(db.table)
    THEN [table |-> db.table, ret |-> Err(Error_from("no such table: metadata"))]
    ELSE LET rows == unwrap(db.table)
             kept == SelectSeq(rows, LAMBDA row : row.id # metadata.id)
         IN [table |-> Some(Append(kept, metadata)), ret |-> Ok]

\* insert_metadata: INSERT INTO metadata VALUES (?1, ?2, ?3, ?4, ?5, ?6); the
\* primary key rejects a row whose id is already in the table.
insert_metadata(db, metadata) ==
    IF ~ is_some(db.table)
    THEN [table |-> db.table, ret |-> Err(Error_from("no such table: metadata"))]
    ELSE LET rows == unwrap(db.table) IN
         IF \E i \in DOMAIN rows : rows[i].id = metadata.id
         THEN [table |-> db.table,
               ret |-> Err(Error_from("UNIQUE constraint failed: metadata.id"))]
         ELSE [table |-> Some(Append(rows, metadata)), ret |-> Ok]

\* A client calls init_schema.
InitSchema ==
    /\ IsLibrary
    /\ sqlite' = [table |-> init_schema(sqlite).table,
                  result |-> Some([call |-> "init_schema", arg |-> None,
                                   ret |-> init_schema(sqlite).ret])]
    /\ UNCHANGED <<capacity, status, inserted, block_parquet, extrinsic_parquet,
                   event_parquet, call_parquet, disk, writes>>

\* A client calls insert_metadata with some record.
InsertMetadata ==
    /\ IsLibrary
    /\ \E id \in 1..MaxMetadataIds :
       \E n \in 1..MaxMetadataVersions :
          LET metadata == Metadata(id, n) IN
          sqlite' = [table |-> insert_metadata(sqlite, metadata).table,
                     result |-> Some([call |-> "insert_metadata", arg |-> metadata,
                                      ret |-> insert_metadata(sqlite, metadata).ret])]
    /\ UNCHANGED <<capacity, status, inserted, block_parquet, extrinsic_parquet,
                   event_parquet, call_parquet, disk, writes>>

(***************************************************************************)
(* Specification.                                                          *)
(***************************************************************************)
NoRecords == [block |-> <<>>, extrinsic |-> <<>>, event |-> <<>>, call |-> <<>>]

\* main() after Args::parse(), the create_dir calls and the four new().
InitBinary ==
    /\ capacity \in Capacities
    /\ status = "running"
    /\ inserted = NoRecords
    /\ block_parquet = BlockParquet_new
    /\ extrinsic_parquet = ExtrinsicParquet_new
    /\ event_parquet = EventParquet_new
    /\ call_parquet = CallParquet_new
    /\ disk = NoFiles
    /\ writes = <<>>
    /\ sqlite = SQLite_new

\* A library client after the four parquet::<Kind>Parquet::new(); the library
\* has no capacity option.
InitLibrary ==
    /\ capacity = None
    /\ status = "running"
    /\ inserted = NoRecords
    /\ block_parquet = parquet_BlockParquet_new
    /\ extrinsic_parquet = parquet_ExtrinsicParquet_new
    /\ event_parquet = parquet_EventParquet_new
    /\ call_parquet = parquet_CallParquet_new
    /\ disk = NoFiles
    /\ writes = <<>>
    /\ sqlite = SQLite_new

Init == InitBinary \/ InitLibrary

\* The binary fed a chain: block heights strictly increasing, each block
\* carrying at most one extrinsic.
InitChain ==
    /\ capacity \in ChainCapacities
    /\ status = "running"
    /\ inserted = NoRecords
    /\ block_parquet = BlockParquet_new
    /\ extrinsic_parquet = ExtrinsicParquet_new
    /\ event_parquet = EventParquet_new
    /\ call_parquet = CallParquet_new
    /\ disk = NoFiles
    /\ writes = <<>>
    /\ sqlite = SQLite_new

Next ==
    \/ Ingest
    \/ DecodePanic
    \/ LibInsertBlock
    \/ LibInsertExtrinsic
    \/ LibInsertEvent
    \/ LibInsertCall
    \/ LibSave

Spec == Init /\ [][Next]_vars

NextChain ==
    \/ IngestChain
    \/ DecodePanic

SpecChain == InitChain /\ [][NextChain]_vars

\* The binary started with any --capacity clap accepts for an i32 and fed
\* headers of any i32 height: values around zero and the ends of the range.
InitArgs ==
    /\ capacity \in ArgCapacities
    /\ status = "running"
    /\ inserted = NoRecords
    /\ block_parquet = BlockParquet_new
    /\ extrinsic_parquet = ExtrinsicParquet_new
    /\ event_parquet = EventParquet_new
    /\ call_parquet = CallParquet_new
    /\ disk = NoFiles
    /\ writes = <<>>
    /\ sqlite = SQLite_new

NextArgs ==
    \/ IngestArgs
    \/ DecodePanic

SpecArgs == InitArgs /\ [][NextArgs]_vars

\* A client of sqlite.rs alone.
NextSqlite ==
    \/ InitSchema
    \/ InsertMetadata

SpecSqlite == InitLibrary /\ [][NextSqlite]_vars

(***************************************************************************)
(* The loop of main() statement by statement.  `status` is the position:   *)
(* "running" at read_line (main.rs:498), "save_block" ... "save_call" at   *)
(* the four save_parquet calls (main.rs:516-519), "reset" at the four      *)
(* new() (main.rs:520-523), "panicked" once an unwrap() has failed.  The   *)
(* height of the flush in progress is the height of the block read last.   *)
(***************************************************************************)
SavePositions == <<"save_block", "save_extrinsic", "save_event", "save_call">>
SaveKinds == <<"block", "extrinsic", "event", "call">>

block_height_read == inserted.block[Len(inserted.block)].height

\* main.rs:498-511: read a line, decode it, insert its records, test the height.
read_and_insert(block_data) ==
    /\ inserted' = [block |-> Append(inserted.block, block_data.header),
                    extrinsic |-> inserted.extrinsic \o block_data.extrinsics,
                    event |-> inserted.event \o block_data.events,
                    call |-> inserted.call \o block_data.calls]
    /\ block_parquet' = BlockParquet_insert(block_parquet, block_data.header)
    /\ extrinsic_parquet' = insert_extrinsics(extrinsic_parquet, block_data.extrinsics)
    /\ event_parquet' = insert_events(event_parquet, block_data.events)
    /\ call_parquet' = insert_calls(call_parquet, block_data.calls)
    /\ status' = IF rem_panics(block_data.header.height, capacity) THEN "panicked"
                 ELSE IF flush_due(block_data.header.height, capacity) THEN "save_block"
                 ELSE status
    /\ UNCHANGED <<capacity, disk, writes>>
    /\ UNCHANGED sqlite

\* StepRead with a fault: lines are read and inserted from a second thread
\* of control, whatever the position of the flush.
StepRead_overlapped ==
    /\ IsBinary
    /\ status # "panicked"
    /\ Len(inserted.block) < MaxStepBlocks
    /\ \E height \in Heights :
       \E xs \in Shapes(1, 1) :
          read_and_insert(BlockData(height, xs, <<>>, <<>>))

StepRead ==
    /\ IsBinary
    /\ status = "running"
    /\ Len(inserted.block) < MaxStepBlocks
    /\ \E height \in Heights :
       \E xs \in Shapes(1, 1) :
          read_and_insert(BlockData(height, xs, <<>>, <<>>))

\* The file a save_parquet call leaves when a statement after File::create
\* fails: the file exists, without a row group and without a footer.
truncated(parquet) == [schema |-> schema(parquet), row_groups |-> <<>>]

\* main.rs:516-519, one call of save_parquet running to its end.
StepSave ==
    \E k \in 1..4 :
       LET parquet == CASE k = 1 -> block_parquet
                        [] k = 2 -> extrinsic_parquet
                        [] k = 3 -> event_parquet
                        [] k = 4 -> call_parquet
           path == join(SaveKinds[k], block_height_read)
       IN
       /\ status = SavePositions[k]
       /\ disk' = fs_write(disk, path, save_parquet(parquet))
       /\ writes' = Append(writes, [path |-> path, file |-> save_parquet(parquet)])
       /\ status' = IF k < 4 THEN SavePositions[k + 1] ELSE "reset"
       /\ UNCHANGED <<capacity, inserted, block_parquet, extrinsic_parquet,
                      event_parquet, call_parquet>>
       /\ UNCHANGED sqlite

\* One call of save_parquet failing: File::create(path).unwrap() panics
\* (main.rs:410) and the path keeps what it held, or a later unwrap() of the
\* writer panics (main.rs:413-461) and the path holds a truncated file.
StepSavePanic ==
    \E k \in 1..4 :
    \E created \in BOOLEAN :
       LET parquet == CASE k = 1 -> block_parquet
                        [] k = 2 -> extrinsic_parquet
                        [] k = 3 -> event_parquet
                        [] k = 4 -> call_parquet
           path == join(SaveKinds[k], block_height_read)
       IN
       /\ status = SavePositions[k]
       /\ disk' = IF created THEN fs_write(disk, path, truncated(parquet)) ELSE disk
       /\ status' = "panicked"
       /\ UNCHANGED <<capacity, inserted, block_parquet, extrinsic_parquet,
                      event_parquet, call_parquet, writes>>
       /\ UNCHANGED sqlite

\* StepReset with a fault: the block accumulator is not replaced.
StepReset_keeps_block ==
    /\ status = "reset"
    /\ extrinsic_parquet' = ExtrinsicParquet_new
    /\ event_parquet' = EventParquet_new
    /\ call_parquet' = CallParquet_new
    /\ status' = "running"
    /\ UNCHANGED <<capacity, inserted, block_parquet, disk, writes>>
    /\ UNCHANGED sqlite

\* main.rs:520-523
StepReset ==
    /\ status = "reset"
    /\ block_parquet' = BlockParquet_new
    /\ extrinsic_parquet' = ExtrinsicParquet_new
    /\ event_parquet' = EventParquet_new
    /\ call_parquet' = CallParquet_new
    /\ status' = "running"
    /\ UNCHANGED <<capacity, inserted, disk, writes>>
    /\ UNCHANGED sqlite

NextSteps ==
    \/ StepRead
    \/ DecodePanic
    \/ StepSave
    \/ StepSavePanic
    \/ StepReset

SpecSteps == InitBinary /\ [][NextSteps]_vars

(***************************************************************************)
(* Vocabulary of the properties.                                           *)
(***************************************************************************)
Accumulator(kind) ==
    CASE kind = "block" -> block_parquet
      [] kind = "extrinsic" -> extrinsic_parquet
      [] kind = "event" -> event_parquet
      [] kind = "call" -> call_parquet

\* The block heights read so far, in input order.
HeightsRead == [i \in 1..Len(inserted.block) |-> inserted.block[i].height]

\* h is a non-zero exact multiple of c (stated without the remainder).
NonZeroMultiple(h, c) == \E k \in 1..Abs(h) : h = k * c \/ h = -(k * c)

\* Number of 1 entries of a definition-level sequence.
Ones(levels) == Cardinality({i \in DOMAIN levels : levels[i] = 1})

\* The files of one kind in the output tree, and their total row count.
PathsOf(kind) == {p \in DOMAIN disk : p.dir = kind}

RECURSIVE SumFileRows(_)
SumFileRows(paths) ==
    IF paths = {} THEN 0
    ELSE LET p == CHOOSE q \in paths : TRUE IN
         file_rows(disk[p]) + SumFileRows(paths \ {p})

\* Rows of one kind handed to save_parquet so far, over all calls.
RECURSIVE WrittenRows(_, _)
WrittenRows(kind, ws) ==
    IF ws = <<>> THEN 0
    ELSE (IF Head(ws).path.dir = kind THEN file_rows(Head(ws).file) ELSE 0)
         + WrittenRows(kind, Tail(ws))

\* The records of one kind inserted since its accumulator was last replaced.
Buffered(kind) ==
    LET all == inserted[kind]
        n == Len(all) - WrittenRows(kind, writes)
    IN SubSeq(all, Len(all) - n + 1, Len(all))

\* What a column must hold for a record: the field converted to the column's
\* physical type.
Converted(col, x) ==
    CASE col.logical = "JSON" -> ByteArray_from(to_string(x))
      [] col.logical = "TIMESTAMP" -> x.millis
      [] col.type = "BYTE_ARRAY" /\ col.logical = "NONE" -> ByteArray_from(x)
      [] OTHER -> x

Expected(col, rec) ==
    LET x == rec[col.name] IN
    IF col.repetition = "OPTIONAL"
    THEN (IF is_some(x) THEN Some(Converted(col, unwrap(x))) ELSE None)
    ELSE Some(Converted(col, x))

\* What a reader gets at row i of a column chunk: None for an absent value;
\* "short" when the chunk has no entry for the row.
Decoded(col, chunk, i) ==
    IF col.repetition = "OPTIONAL"
    THEN (IF i > Len(chunk.def_levels) THEN "short"
          ELSE IF chunk.def_levels[i] = 0 THEN None
          ELSE LET k == Ones(SubSeq(chunk.def_levels, 1, i)) IN
               IF k > Len(chunk.data) THEN "short" ELSE Some(chunk.data[k]))
    ELSE (IF i > Len(chunk.data) THEN "short" ELSE Some(chunk.data[i]))

\* The dense values an optional column must hold for a run of records.
RECURSIVE Dense(_, _)
Dense(col, recs) ==
    IF recs = <<>> THEN <<>>
    ELSE (IF is_some(Head(recs)[col.name])
          THEN << Converted(col, unwrap(Head(recs)[col.name])) >> ELSE <<>>)
         \o Dense(col, Tail(recs))

Flags(col, recs) ==
    [i \in 1..Len(recs) |-> IF is_some(recs[i][col.name]) THEN 1 ELSE 0]

OptionalCols(parquet) ==
    {j \in 1..Len(schema(parquet)) : schema(parquet)[j].repetition = "OPTIONAL"}

(***************************************************************************)
(* C1.  In the ingestion loop, once the records of one input block have    *)
(* been inserted, the four accumulators are written out together exactly   *)
(* when the block's height is a non-zero multiple of the capacity: then     *)
(* four files are written, one per kind, and all four accumulators are     *)
(* replaced by empty ones; otherwise nothing is written and every          *)
(* accumulator keeps its rows plus the block's records.                    *)
(***************************************************************************)
C1_FlushIffNonZeroMultiple ==
    [][ (IsBinary /\ Len(inserted'.block) = Len(inserted.block) + 1) =>
        LET h == inserted'.block[Len(inserted'.block)].height IN
        IF NonZeroMultiple(h, capacity)
        THEN /\ Len(writes') = Len(writes) + 4
             /\ {writes'[Len(writes) + i].path.dir : i \in 1..4} = Kinds
             /\ block_parquet' = BlockParquet_new
             /\ extrinsic_parquet' = ExtrinsicParquet_new
             /\ event_parquet' = EventParquet_new
             /\ call_parquet' = CallParquet_new
        ELSE /\ writes' = writes
             /\ disk' = disk
             /\ len(block_parquet') = len(block_parquet) + 1
             /\ \A kind \in Kinds \ {"block"} :
                  len(Accumulator(kind)') =
                      len(Accumulator(kind)) + Len(inserted'[kind]) - Len(inserted[kind])
      ]_vars

\* A block of height 0 has been read, a flush has happened, and a later block
\* is buffered without a flush.
C1_Witness ==
    /\ IsBinary
    /\ \E i \in 1..Len(inserted.block) : inserted.block[i].height = 0
    /\ writes # <<>>
    /\ len(block_parquet) > 0

(***************************************************************************)
(* C2.  Row-count conservation: for each record kind, the rows of the      *)
(* files of that kind in the output tree add up to the records ingested    *)
(* minus the records still buffered in the accumulator.                    *)
(***************************************************************************)
C2_RowCountConservation ==
    IsBinary =>
        \A kind \in Kinds :
            SumFileRows(PathsOf(kind)) = Len(inserted[kind]) - len(Accumulator(kind))

(***************************************************************************)
(* C3.  Sort order: the rows of every flushed row group of the Block kind  *)
(* are non-decreasing in height.                                           *)
(***************************************************************************)
C3_BlockRowsSortedByHeight ==
    IsBinary =>
        \A w \in 1..Len(writes) :
            writes[w].path.dir = "block" =>
                \A g \in 1..Len(writes[w].file.row_groups) :
                    LET heights == writes[w].file.row_groups[g][2].data IN
                    \A i, j \in 1..Len(heights) : i < j => heights[i] <= heights[j]

(***************************************************************************)
(* C4.  Null round-trip: in every accumulator, every optional column holds *)
(* one definition level per record inserted since the last reset, 0 for a  *)
(* record whose field is absent and 1 for one whose field is present, and  *)
(* its dense values are exactly the present fields' values, in insertion   *)
(* order: an absent field adds nothing to the dense values.                *)
(***************************************************************************)
C4_NullRoundTrip ==
    \A kind \in Kinds :
        LET parquet == Accumulator(kind)
            recs == Buffered(kind)
        IN \A j \in OptionalCols(parquet) :
            LET col == schema(parquet)[j]
                column == parquet.context[col.name]
            IN /\ column.def_levels = Flags(col, recs)
               /\ column.data = Dense(col, recs)

\* The library's event accumulator holds an absent and then a present
\* extrinsic_id, and a present validator is buffered too.
C4_Witness ==
    /\ IsLibrary
    /\ event_parquet.context.extrinsic_id.def_levels = <<0, 1>>
    /\ Len(event_parquet.context.extrinsic_id.data) = 1
    /\ block_parquet.context.validator.def_levels = <<1>>

(***************************************************************************)
(* C5.  Column Buffer invariant as claimed: for every column of every      *)
(* accumulator, required or optional, def_levels holds one entry per row   *)
(* inserted since the last reset and data holds as many values as          *)
(* def_levels holds 1 entries.                                             *)
(***************************************************************************)
C5_EveryColumnTracksPresence ==
    \A kind \in Kinds :
        LET parquet == Accumulator(kind) IN
        \A j \in 1..Len(schema(parquet)) :
            LET column == parquet.context[schema(parquet)[j].name] IN
            /\ Len(column.def_levels) = Len(Buffered(kind))
            /\ Len(column.data) = Ones(column.def_levels)

(***************************************************************************)
(* C5, amended.  An OPTIONAL column holds one definition level per row     *)
(* inserted since the last reset and as many dense values as 1 levels; a   *)
(* REQUIRED column holds no definition level at all and one dense value    *)
(* per row.                                                                *)
(***************************************************************************)
C5_ColumnBufferInvariant ==
    \A kind \in Kinds :
        LET parquet == Accumulator(kind) IN
        \A j \in 1..Len(schema(parquet)) :
            LET col == schema(parquet)[j]
                column == parquet.context[col.name]
            IN IF col.repetition = "OPTIONAL"
               THEN /\ Len(column.def_levels) = Len(Buffered(kind))
                    /\ Len(column.data) = Ones(column.def_levels)
               ELSE /\ column.def_levels = <<>>
                    /\ Len(column.data) = Len(Buffered(kind))

\* After a save has reset it, the library's extrinsic accumulator holds two
\* rows, the first without a signature.
C5_Witness ==
    /\ IsLibrary
    /\ \E w \in 1..Len(writes) : writes[w].path.dir = "extrinsic"
    /\ extrinsic_parquet.context.signature.def_levels = <<0, 1>>
    /\ Len(extrinsic_parquet.context.id.data) = 2

(***************************************************************************)
(* C6.  Row correspondence: at every row position of every file written,   *)
(* the values (or absence markers) of all columns are those of one and the *)
(* same inserted record, each in the column the schema names for it.       *)
(***************************************************************************)
C6_RowCorrespondence ==
    \A w \in 1..Len(writes) :
        LET file == writes[w].file
            recs == inserted[writes[w].path.dir]
        IN \A g \in 1..Len(file.row_groups) :
           \A i \in 1..chunk_rows(file.schema[1], file.row_groups[g][1]) :
              \E n \in 1..Len(recs) :
                 \A j \in 1..Len(file.schema) :
                    Decoded(file.schema[j], file.row_groups[g][j], i)
                        = Expected(file.schema[j], recs[n])

\* The library has written an event file of two rows, the first with an
\* extrinsic_id and no call_id, the second the other way round.
C6_Witness ==
    /\ IsLibrary
    /\ \E w \in 1..Len(writes) :
         /\ writes[w].path.dir = "event"
         /\ writes[w].file.row_groups[1][5].def_levels = <<1, 0>>
         /\ writes[w].file.row_groups[1][6].def_levels = <<0, 1>>

\* The stems (file names without ".parquet") of the files of one kind.
StemsOf(kind) == {p.stem : p \in PathsOf(kind)}

\* The row counts of the row groups of a file, in order.
RowGroupSizes(file) ==
    [g \in 1..Len(file.row_groups) |->
        chunk_rows(file.schema[1], file.row_groups[g][1])]

(***************************************************************************)
(* C7.  Rotation boundaries as claimed: with a row-group threshold of 2    *)
(* and a file threshold of 4 (the capacity option taken as either one),    *)
(* once blocks of heights 1, 2, 3, 4 have been pushed there is exactly one *)
(* block file and it holds two row groups of 2 rows each.                  *)
(***************************************************************************)
C7_TwoRowGroupsPerFile ==
    (capacity \in {2, 4} /\ HeightsRead = <<1, 2, 3, 4>>) =>
        /\ Cardinality(PathsOf("block")) = 1
        /\ \A p \in PathsOf("block") : RowGroupSizes(disk[p]) = <<2, 2>>

(***************************************************************************)
(* C7, amended.  There is one threshold, the capacity: every file written  *)
(* holds exactly one row group.  Once blocks of heights 1, 2, 3, 4 have    *)
(* been pushed, capacity 2 has produced the two block files 2 and 4, each  *)
(* of one row group of 2 rows, and capacity 4 the one block file 4, of one *)
(* row group of 4 rows; a 5th block (height 5) is then buffered for a      *)
(* later file.                                                             *)
(***************************************************************************)
C7_OneRowGroupPerFile ==
    /\ \A w \in 1..Len(writes) : Len(writes[w].file.row_groups) = 1
    /\ (Len(HeightsRead) >= 4 /\ SubSeq(HeightsRead, 1, 4) = <<1, 2, 3, 4>>
        /\ (Len(HeightsRead) = 5 => HeightsRead[5] = 5)
        /\ Len(HeightsRead) <= 5) =>
          /\ capacity = 2 =>
               /\ StemsOf("block") = {2, 4}
               /\ \A p \in PathsOf("block") : RowGroupSizes(disk[p]) = <<2>>
          /\ capacity = 4 =>
               /\ StemsOf("block") = {4}
               /\ \A p \in PathsOf("block") : RowGroupSizes(disk[p]) = <<4>>
          /\ (capacity \in {2, 4} /\ Len(HeightsRead) = 5) => len(block_parquet) = 1

\* Capacity 2 and blocks 1..5 read: two files written, the 5th row buffered.
C7_Witness ==
    /\ capacity = 2
    /\ HeightsRead = <<1, 2, 3, 4, 5>>
    /\ Len(writes) = 8

(***************************************************************************)
(* C8.  The capacity option is the count of blocks per file: every block   *)
(* file in the output tree holds exactly `capacity` block rows.            *)
(***************************************************************************)
C8_CapacityBlocksPerFile ==
    IsBinary =>
        \A p \in PathsOf("block") : file_rows(disk[p]) = capacity

(***************************************************************************)
(* C9.  End-to-end: for capacity c and input blocks of heights 1, ..., c   *)
(* in that order, exactly one block file and one extrinsic file have been  *)
(* written, both named c; the block file's rows are heights 1, ..., c in   *)
(* that order and the extrinsic file holds one row per input extrinsic.    *)
(***************************************************************************)
C9_EndToEnd ==
    HeightsRead = [i \in 1..capacity |-> i] =>
        /\ Len(writes) = 4
        /\ PathsOf("block") = {join("block", capacity)}
        /\ PathsOf("extrinsic") = {join("extrinsic", capacity)}
        /\ disk[join("block", capacity)].row_groups[1][2].data = HeightsRead
        /\ file_rows(disk[join("block", capacity)]) = capacity
        /\ file_rows(disk[join("extrinsic", capacity)]) = Len(inserted.extrinsic)

\* Capacity 2, blocks 1 and 2 with one extrinsic each, and the input is exhausted.
C9_Witness ==
    /\ capacity = 2
    /\ HeightsRead = <<1, 2>>
    /\ Len(inserted.extrinsic) = 2
    /\ inserted.extrinsic[2].id = <<"extrinsic.id", 2>>
    /\ status = "panicked"

(***************************************************************************)
(* C10.  Each flush writes four files, one per record kind, at             *)
(* block/<h>.parquet, extrinsic/<h>.parquet, event/<h>.parquet and         *)
(* call/<h>.parquet, h being the height of the block that triggered it,    *)
(* each path holding afterwards the file of its own kind, and no other     *)
(* path is created.                                                        *)
(***************************************************************************)
C10_FlushPaths ==
    [][ (IsBinary /\ writes' # writes) =>
        LET h == inserted'.block[Len(inserted'.block)].height
            new == [i \in 1..(Len(writes') - Len(writes)) |-> writes'[Len(writes) + i]]
        IN /\ Len(new) = 4
           /\ SubSeq(writes', 1, Len(writes)) = writes
           /\ \A kind \in Kinds :
                /\ Cardinality({i \in 1..4 : new[i].path = [dir |-> kind, stem |-> h]}) = 1
                /\ \A i \in 1..4 :
                     new[i].path.dir = kind =>
                        /\ new[i].file.schema = schema(Accumulator(kind))
                        /\ disk'[new[i].path] = new[i].file
           /\ DOMAIN disk' = DOMAIN disk \cup {[dir |-> kind, stem |-> h] : kind \in Kinds}
           /\ \A p \in DOMAIN disk : p.stem # h => disk'[p] = disk[p]
      ]_vars

\* Two flushes have happened, at heights 1 and 3.
C10_Witness ==
    /\ IsBinary
    /\ Len(writes) = 8
    /\ StemsOf("call") = {1, 3}

(***************************************************************************)
(* C11.  No flush on shutdown.  The loop of main() stops at the end of the *)
(* input (the empty line does not decode); that step writes no file, and   *)
(* nothing is written afterwards.  Hence, once the run has stopped, the    *)
(* rows still held by the accumulators (those inserted after the last      *)
(* flush) are in no file of the output tree.                               *)
(***************************************************************************)
\* The ids found in the id column (the first column) of a file.
IdsInFile(file) ==
    UNION {{rg[1].data[i] : i \in DOMAIN rg[1].data} :
           rg \in {file.row_groups[k] : k \in DOMAIN file.row_groups}}

\* The ids of the rows an accumulator holds.
IdsBuffered(kind) ==
    {Accumulator(kind).context.id.data[i] :
        i \in DOMAIN Accumulator(kind).context.id.data}

C11_NoFlushOnShutdown ==
    /\ [][ (IsBinary /\ status' = "panicked") =>
              (disk' = disk /\ writes' = writes) ]_vars
    /\ [](  (IsBinary /\ status = "panicked") =>
              \A kind \in Kinds :
                 /\ Len(inserted[kind]) = WrittenRows(kind, writes) + len(Accumulator(kind))
                 /\ \A p \in DOMAIN disk : IdsInFile(disk[p]) \cap IdsBuffered(kind) = {} )

\* The run stopped after a flush, holding a trailing block and a trailing
\* extrinsic that were never written.
C11_Witness ==
    /\ IsBinary
    /\ status = "panicked"
    /\ writes # <<>>
    /\ len(block_parquet) > 0
    /\ len(extrinsic_parquet) > 0

(***************************************************************************)
(* C12.  Failures abort the run, with no retry and no partial-row commit.  *)
(* A line that fails to decode stops the loop at read_line's position      *)
(* leaving the four accumulators, the records ingested and the output tree *)
(* as they were; a failing save_parquet stops it leaving the accumulators  *)
(* as they were; and once the run has stopped no step is taken any more,   *)
(* so no later line is processed.                                          *)
(***************************************************************************)
C12_FailureAborts ==
    /\ [][ (status = "running" /\ status' = "panicked") =>
              UNCHANGED <<inserted, block_parquet, extrinsic_parquet,
                          event_parquet, call_parquet, disk, writes>> ]_vars
    /\ [][ status' = "panicked" =>
              UNCHANGED <<inserted, block_parquet, extrinsic_parquet,
                          event_parquet, call_parquet, writes>> ]_vars
    /\ [][ status # "panicked" ]_vars

\* The run stopped on a line that did not decode, after a block that asked
\* for no flush: the rows of the earlier lines are still in the accumulators.
C12_Witness ==
    /\ IsBinary
    /\ status = "panicked"
    /\ inserted.block # <<>>
    /\ ~ flush_due(inserted.block[Len(inserted.block)].height, capacity)
    /\ len(block_parquet) = Len(inserted.block)
    /\ writes = <<>>

(***************************************************************************)
(* C13.  Backpressure coupling.  main() is one thread of control: while a  *)
(* flush is in progress (at any of the four save_parquet calls or at the   *)
(* resets, however long a write takes) no line is read and no accumulator  *)
(* of any kind gains a row; and whenever the records of a block enter the  *)
(* accumulators, every flush asked for by an earlier block has finished:   *)
(* all four of its save_parquet calls have returned.                       *)
(***************************************************************************)
\* The blocks read so far whose height asked for a flush.
FlushesDue ==
    Cardinality({i \in 1..Len(inserted.block) :
                    flush_due(inserted.block[i].height, capacity)})

C13_NoIngestDuringFlush ==
    [][ ( \/ inserted' # inserted
          \/ len(block_parquet') > len(block_parquet)
          \/ len(extrinsic_parquet') > len(extrinsic_parquet)
          \/ len(event_parquet') > len(event_parquet)
          \/ len(call_parquet') > len(call_parquet) ) =>
        ( /\ status = "running"
          /\ Len(writes) = 4 * FlushesDue ) ]_vars

\* A second block has entered the accumulators after the flush asked for by
\* the first one has finished.
C13_Witness ==
    /\ IsBinary
    /\ Len(inserted.block) = 2
    /\ flush_due(inserted.block[1].height, capacity)
    /\ Len(writes) = 4
    /\ len(block_parquet) = 1
    /\ len(extrinsic_parquet) = 1

(***************************************************************************)
(* C14.  The metadata table is insert-only.  A call of insert_metadata     *)
(* that returns Ok has added exactly its record as one new row, every      *)
(* earlier row staying as it was; a call whose id is already the id of a   *)
(* row (or made before the table exists) returns Err(Error::Internal) and  *)
(* leaves the table as it was; no call removes or changes a row.  Hence    *)
(* the rows of the table always have pairwise distinct ids.                *)
(***************************************************************************)
Rows(db) == IF is_some(db.table) THEN unwrap(db.table) ELSE <<>>

C14_InsertOnly ==
    /\ [][ LET old == Rows(sqlite)
               new == Rows(sqlite')
               call == unwrap(sqlite'.result)
           IN
           /\ Len(new) >= Len(old)
           /\ SubSeq(new, 1, Len(old)) = old
           /\ call.call = "insert_metadata" =>
                IF is_some(sqlite.table)
                   /\ \A i \in DOMAIN old : old[i].id # call.arg.id
                THEN call.ret = Ok /\ new = Append(old, call.arg)
                ELSE /\ DOMAIN call.ret = {"Err"}
                     /\ DOMAIN call.ret.Err = {"Internal"}
                     /\ sqlite'.table = sqlite.table ]_vars
    /\ [](\A i, j \in DOMAIN Rows(sqlite) :
             Rows(sqlite)[i].id = Rows(sqlite)[j].id => i = j)

\* A second record with the id of an existing row has just been refused:
\* the table still holds the first record of that id, and another row.
C14_Witness ==
    /\ is_some(sqlite.result)
    /\ unwrap(sqlite.result).call = "insert_metadata"
    /\ DOMAIN unwrap(sqlite.result).ret = {"Err"}
    /\ Len(Rows(sqlite)) = 2
    /\ \E i \in DOMAIN Rows(sqlite) :
          /\ Rows(sqlite)[i].id = unwrap(sqlite.result).arg.id
          /\ Rows(sqlite)[i] # unwrap(sqlite.result).arg

(***************************************************************************)
(* C15.  The wrong-type branches of the column dispatch are unreachable.   *)
(* For every accumulator of either iteration, in every state, context()    *)
(* has as many entries as schema() has columns, entry i has the physical   *)
(* type of column i, and so the column loop of save_parquet ends without   *)
(* a panic.                                                                *)
(***************************************************************************)
C15_DispatchNeverPanics ==
    \A kind \in Kinds :
       LET parquet == Accumulator(kind) IN
       /\ Len(context(parquet)) = Len(schema(parquet))
       /\ \A i \in 1..Len(schema(parquet)) :
             /\ schema(parquet)[i].type \in {"BYTE_ARRAY", "INT32", "INT64", "BOOLEAN"}
             /\ context(parquet)[i].type = schema(parquet)[i].type
       /\ column_loop(schema(parquet), context(parquet), 1) = "Ok"

\* A library call accumulator has been saved with a row in it while the
\* other accumulators hold rows.
C15_Witness ==
    /\ IsLibrary
    /\ \E i \in DOMAIN writes :
          writes[i].path.dir = "call" /\ file_rows(writes[i].file) > 0
    /\ len(block_parquet) + len(extrinsic_parquet) + len(event_parquet) > 0

(***************************************************************************)
(* C16.  Reset after flush.  When the loop returns to read_line after a    *)
(* flush, every data and def_levels sequence of all four accumulators has  *)
(* length 0.  Hence the files written by the successive flushes hold, kind *)
(* by kind and in order, the records ingested, each once: a file holds     *)
(* only rows inserted after the flush before it, and no row is handed to   *)
(* save_parquet twice.                                                     *)
(***************************************************************************)
Empty(parquet) ==
    \A c \in DOMAIN parquet.context :
       Len(parquet.context[c].data) = 0 /\ Len(parquet.context[c].def_levels) = 0

\* The id column of the files of one kind, over the save_parquet calls in order.
RECURSIVE WrittenIds(_, _)
WrittenIds(kind, ws) ==
    IF ws = <<>> THEN <<>>
    ELSE (IF Head(ws).path.dir = kind
          THEN Head(Head(ws).file.row_groups)[1].data ELSE <<>>)
         \o WrittenIds(kind, Tail(ws))

C16_ResetAfterFlush ==
    /\ [][ (status = "reset" /\ status' = "running") =>
              /\ Empty(block_parquet')
              /\ Empty(extrinsic_parquet')
              /\ Empty(event_parquet')
              /\ Empty(call_parquet') ]_vars
    /\ [](\A kind \in Kinds :
             LET ids == WrittenIds(kind, writes) IN
             /\ Len(ids) <= Len(inserted[kind])
             /\ \A i \in DOMAIN ids : ids[i] = ByteArray_from(inserted[kind][i].id))

\* Two flushes have finished; the second extrinsic file holds one row, the
\* extrinsic of the second block.
C16_Witness ==
    /\ status = "running"
    /\ Len(writes) = 8
    /\ Len(inserted.extrinsic) = 2
    /\ file_rows(writes[2].file) = 1
    /\ file_rows(writes[6].file) = 1
    /\ Empty(block_parquet)
    /\ Empty(extrinsic_parquet)

(***************************************************************************)
(* C17.  No flush overwrites an earlier flush: two different save_parquet  *)
(* calls never write to the same path, so every file ever written is still *)
(* in the output tree with the content it was written with.                *)
(***************************************************************************)
C17_NoOverwrite ==
    IsBinary =>
       /\ \A i, j \in DOMAIN writes : writes[i].path = writes[j].path => i = j
       /\ \A i \in DOMAIN writes : disk[writes[i].path] = writes[i].file

(***************************************************************************)
(* C18.  Cross-kind atomicity of a flush: once the run has stopped, for    *)
(* every height h either all four files block/h, extrinsic/h, event/h and  *)
(* call/h are completely written or none of them is.                       *)
(***************************************************************************)
\* A file is completely written when its row group and footer are there.
Complete(file) == file.row_groups # <<>>

C18_FlushAtomicAcrossKinds ==
    (IsBinary /\ status = "panicked") =>
       \A h \in Heights :
          LET done == {kind \in Kinds :
                          /\ join(kind, h) \in DOMAIN disk
                          /\ Complete(disk[join(kind, h)])}
          IN done = Kinds \/ done = {}

(***************************************************************************)
(* C19.  The flush test is defined for every 32-bit height and every       *)
(* capacity the command line accepts: no iteration of the loop that has    *)
(* inserted the records of a block stops the run.                          *)
(***************************************************************************)
C19_FlushTestNeverAborts ==
    [][ Len(inserted'.block) > Len(inserted.block) => status' # "panicked" ]_vars

====
